---------------------------- MODULE Spec2Model ----------------------------
(***************************************************************************)
(* fake-sandbox-exec (src/main/tools/fake-sandbox-exec.c): main() runs     *)
(* getopt(ac, av, "f:n:p:D:") until it returns -1, advances ac/av by       *)
(* optind and returns execvp(av[0], av).                                   *)
(*                                                                         *)
(* A string is a sequence of one-character strings; the argument vector is *)
(* a sequence of strings, with the C array's terminating null pointer at   *)
(* C index ac.  C indices are 0-based: C's av[i] is argv[i + 1] here.      *)
(*                                                                         *)
(* getopt() is the C library's.  Its scan is modelled call by call, with   *)
(* the library's own state (optind, nextchar, first_nonopt, last_nonopt).  *)
(* Libraries differ in one respect the program does not pin down: the GNU  *)
(* library permutes the vector so that options after the first operand are *)
(* still parsed (ordering PERMUTE), while a POSIX/BSD library, or the GNU  *)
(* one with POSIXLY_CORRECT set, stops at the first operand (ordering      *)
(* REQUIRE_ORDER).  Both are behaviours of this source; ordering is chosen *)
(* in Init and never changes.                                              *)
(***************************************************************************)
EXTENDS Integers, Sequences, FiniteSets

VARIABLES
    ordering,      \* getopt's ordering mode: "PERMUTE" or "REQUIRE_ORDER"
    argv0,         \* the argument vector the process was started with
    argv,          \* the array av points into (getopt may permute it)
    ac,            \* main's ac
    avoff,         \* main's av, as an offset into argv (av += optind)
    optind,        \* getopt's optind (C index of the next element to scan)
    nextchar,      \* getopt's position inside argv[optind]; 0: none
    first_nonopt,  \* getopt: start of the operands skipped so far
    last_nonopt,   \* getopt: end of the operands skipped so far
    ch,            \* main's ch: the last value getopt returned
    stderr,        \* diagnostics written to the standard error stream:
                   \* what each says (msg) and the string it names (about)
    launch,        \* the execvp call made: <<>> or <<[file, args]>>
    status,        \* the exit status: <<>> while there is none, or <<code>>
    pc             \* where the process is

vars == <<ordering, argv0, argv, ac, avoff, optind, nextchar, first_nonopt,
          last_nonopt, ch, stderr, launch, status, pc>>

---------------------------------------------------------------------------
(* Bounds of the model. *)

\* The vectors of Init hold the program name and up to MaxArgs more strings.
MaxArgs == 3

---------------------------------------------------------------------------
(* Strings. *)

NULL == <<"NULL">>
PROG == <<"p", "r", "o", "g">>
S_f == <<"-", "f">>
S_n == <<"-", "n">>
S_p == <<"-", "p">>
S_D == <<"-", "D">>
S_x == <<"-", "x">>
S_la == <<"-", "l", "a">>
S_dashdash == <<"-", "-">>
S_dash == <<"-">>
S_fv == <<"-", "f", "v">>
S_xf == <<"-", "x", "f">>
S_empty == <<>>
S_ls == <<"l", "s">>
S_v == <<"v">>
S_tmp == <<"/", "t">>

\* The strings the generic vectors of Init are built from.
Vocabulary ==
    {S_f, S_D, S_x, S_dashdash, S_dash, S_fv, S_xf, S_empty, S_ls, S_v}

\* The example command lines of the documentation (longer than MaxArgs).
Examples ==
    { <<PROG, S_f, S_v, S_n, S_v, S_dashdash, S_ls, S_la, S_tmp>>,
      <<PROG, S_p, S_v, S_ls, S_v, S_tmp>>,
      <<PROG, S_D, S_v, S_ls>>,
      <<PROG, S_f, S_v, S_n, S_v, S_p, S_v, S_D, S_v, S_ls, S_la, S_f>>,
      <<PROG, S_n, S_la, S_p, S_dashdash, S_ls, S_la>>,
      <<PROG, S_ls, S_v, S_la, S_tmp, S_f>>,
      <<PROG, S_fv, S_D, S_dashdash, S_ls>> }

Vectors ==
    {<<PROG>> \o s : s \in UNION {[1..n -> Vocabulary] : n \in 0..MaxArgs}}
        \cup Examples

---------------------------------------------------------------------------
(* getopt(ac, av, "f:n:p:D:") *)

\* The option string of the call.
OptString == <<"f", ":", "n", ":", "p", ":", "D", ":">>

\* The value -1 getopt returns when the scan is over.
EOF == "EOF"
\* The value '?' getopt returns for an unknown option or a missing value.
BADCH == "?"

Min(a, b) == IF a < b THEN a ELSE b

\* C's av[i] of the array a of n elements: a[n] is the null pointer.
Elem(a, i) == IF i < Len(a) THEN a[i + 1] ELSE NULL

\* strchr(optstring, c): the 1-based position of c's first occurrence, or 0.
StrChr(s, c) ==
    IF \E i \in 1..Len(s) : s[i] = c
    THEN CHOOSE i \in 1..Len(s) : s[i] = c /\ \A j \in 1..(i - 1) : s[j] # c
    ELSE 0

\* An element that is not an option: it does not start with '-', or is "-".
NonOption(s) == Len(s) = 0 \/ s[1] # "-" \/ Len(s) = 1

\* The options skipped over [last_nonopt, optind) move in front of the
\* operands [first_nonopt, last_nonopt); both keep their order.
Exchange(d) ==
    LET a == d.argv
        bottom == d.first_nonopt
        middle == d.last_nonopt
        top == d.optind
    IN [d EXCEPT
          !.argv = SubSeq(a, 1, bottom) \o SubSeq(a, middle + 1, top)
                     \o SubSeq(a, bottom + 1, middle)
                     \o SubSeq(a, top + 1, Len(a)),
          !.first_nonopt = bottom + (top - middle),
          !.last_nonopt = top]

\* The index of the first element at or after i that is an option, or argc.
RECURSIVE SkipNonOptions(_, _)
SkipNonOptions(a, i) ==
    IF i < Len(a) /\ NonOption(a[i + 1]) THEN SkipNonOptions(a, i + 1) ELSE i

\* getopt, start of a new element: the operands skipped so far never lie
\* beyond optind.
ClampNonopts(d) ==
    [d EXCEPT !.last_nonopt = Min(d.last_nonopt, d.optind),
              !.first_nonopt = Min(d.first_nonopt, d.optind)]

\* getopt, start of a new element, under PERMUTE: bring the options skipped
\* so far to the front, then skip the operands that follow.  Under
\* REQUIRE_ORDER nothing moves.
Permute(d, ord) ==
    IF ord # "PERMUTE" THEN d
    ELSE CHOOSE r \in
           { [e EXCEPT !.optind = SkipNonOptions(e.argv, e.optind),
                       !.last_nonopt = SkipNonOptions(e.argv, e.optind)] :
             e \in { IF d.first_nonopt # d.last_nonopt
                        /\ d.last_nonopt # d.optind
                     THEN Exchange(d)
                     ELSE IF d.last_nonopt # d.optind
                          THEN [d EXCEPT !.first_nonopt = d.optind]
                          ELSE d } } : TRUE

\* getopt, the element "--": it is skipped, the scan is over and everything
\* after it is an operand.
SkipDashDash(d) ==
    CHOOSE r \in
      { [f EXCEPT !.last_nonopt = Len(f.argv), !.optind = Len(f.argv)] :
        f \in { IF e.first_nonopt # e.last_nonopt /\ e.last_nonopt # e.optind
                THEN Exchange(e)
                ELSE IF e.first_nonopt = e.last_nonopt
                     THEN [e EXCEPT !.first_nonopt = e.optind]
                     ELSE e :
                e \in {[d EXCEPT !.optind = d.optind + 1]} } } : TRUE

\* A variant of DashDash in which "--" is an element like any other.
DashDashNotSpecial(d) == d

\* getopt, start of a new element: is the element at optind the special
\* element "--"?
DashDash(d) ==
    IF d.optind # Len(d.argv) /\ Elem(d.argv, d.optind) = S_dashdash
    THEN SkipDashDash(d)
    ELSE d

\* getopt, an option character c that is not in the option string: '?' is
\* returned and a diagnostic written; e is the state past the character.
InvalidOption(e, c) ==
    [d |-> e, ret |-> BADCH,
     err |-> <<[msg |-> "invalid option", about |-> <<c>>]>>]

\* A variant of AttachedValue in which the element after the flag, when
\* there is one, is taken as well.
AttachedValueTakesNext(e, c) ==
    [d |-> [e EXCEPT !.nextchar = 0,
                     !.optind = Min(e.optind + 2, Len(e.argv))],
     ret |-> c, err |-> <<>>]

\* getopt, an option that takes a value, more characters follow it in the
\* same element: they are the value, and the element is done.
AttachedValue(e, c) ==
    [d |-> [e EXCEPT !.nextchar = 0, !.optind = e.optind + 1],
     ret |-> c, err |-> <<>>]

\* A variant of MissingValue in which optind moves past the value that is
\* not there.
MissingValueSkips(e, c) ==
    [d |-> [e EXCEPT !.optind = e.optind + 1], ret |-> BADCH,
     err |-> <<[msg |-> "option requires an argument", about |-> <<c>>]>>]

\* getopt, an option that takes a value, at the end of the last element: no
\* element is left to be the value; '?' is returned, a diagnostic written.
MissingValue(e, c) ==
    [d |-> e, ret |-> BADCH,
     err |-> <<[msg |-> "option requires an argument", about |-> <<c>>]>>]

\* A variant of NextElementValue in which the value is not skipped.
NextElementValueKept(e, c) ==
    [d |-> e, ret |-> c, err |-> <<>>]

\* getopt, an option that takes a value, at the end of its element: the
\* next element is the value, whatever it is.
NextElementValue(e, c) ==
    [d |-> [e EXCEPT !.optind = e.optind + 1], ret |-> c, err |-> <<>>]

\* getopt, the option character c, with e the state past it (more: other
\* characters follow c in its element).
OptionChar(e, c, more) ==
    IF StrChr(OptString, c) = 0 \/ c = ":" \/ c = ";"
    THEN InvalidOption(e, c)
    ELSE IF StrChr(OptString, c) < Len(OptString)
            /\ OptString[StrChr(OptString, c) + 1] = ":"
    THEN IF more THEN AttachedValue(e, c)
         ELSE IF e.optind = Len(e.argv) THEN MissingValue(e, c)
         ELSE NextElementValue(e, c)
    ELSE [d |-> e, ret |-> c, err |-> <<>>]

\* getopt, the option character at position pos of argv[optind]: nextchar
\* moves past it, and optind past the element when it was its last.
ShortOption(d, pos) ==
    CHOOSE r \in
      { OptionChar(IF pos < Len(s)
                   THEN [d EXCEPT !.nextchar = pos + 1]
                   ELSE [d EXCEPT !.nextchar = 0, !.optind = d.optind + 1],
                   s[pos], pos < Len(s)) :
        s \in {Elem(d.argv, d.optind)} } : TRUE

\* getopt, start of a new element, after the reordering and "--": the scan
\* is over at the end of the vector and, under REQUIRE_ORDER, at the first
\* operand; else the element is an option and its first character is read.
NextElement(d) ==
    IF d.optind = Len(d.argv)
    THEN [d |-> IF d.first_nonopt # d.last_nonopt
                THEN [d EXCEPT !.optind = d.first_nonopt] ELSE d,
          ret |-> EOF, err |-> <<>>]
    ELSE IF NonOption(Elem(d.argv, d.optind))
    THEN [d |-> d, ret |-> EOF, err |-> <<>>]
    ELSE ShortOption(d, 2)

\* One call of getopt on the library state d under ordering ord: the new
\* state, the value returned and the diagnostics written.  (Each stage's
\* result is bound once and handed to the next.)
Getopt(d, ord) ==
    IF d.nextchar # 0
    THEN ShortOption(d, d.nextchar)
    ELSE CHOOSE r \in
           { NextElement(d3) :
             d3 \in { DashDash(d2) :
               d2 \in { Permute(d1, ord) :
                 d1 \in {ClampNonopts(d)} } } } : TRUE

\* The library's state before the first call: optind = 1.
GetoptInit(a) ==
    [argv |-> a, optind |-> 1, nextchar |-> 0,
     first_nonopt |-> 1, last_nonopt |-> 1]

\* The library state held in the variables.
GetoptData ==
    [argv |-> argv, optind |-> optind, nextchar |-> nextchar,
     first_nonopt |-> first_nonopt, last_nonopt |-> last_nonopt]

\* The library state after the whole loop: getopt called until it returns -1.
RECURSIVE ParseAll(_, _)
ParseAll(d, ord) ==
    CHOOSE e \in { IF r.ret = EOF THEN r.d ELSE ParseAll(r.d, ord) :
                   r \in {Getopt(d, ord)} } : TRUE

\* The filter as a function of the vector: what main's av points at after
\* the loop and "av += optind".
Filter(v, ord) ==
    CHOOSE a \in { SubSeq(d.argv, d.optind + 1, Len(d.argv)) :
                   d \in {ParseAll(GetoptInit(v), ord)} } : TRUE

---------------------------------------------------------------------------
(* main *)

\* A variant of ExitStatus for a main that drops execvp's result and
\* returns 0.
ExitStatusIgnored(r) == 0 * r

\* The exit status of a process whose main returns r: its low eight bits.
ExitStatus(r) == r % 256

\* C's av[i] for main's av, which points at element avoff of argv.
Av(i) == Elem(argv, avoff + i)

\* The null-terminated array av points at, as a sequence.
AvList == SubSeq(argv, avoff + 1, Len(argv))

Init ==
    /\ ordering \in {"PERMUTE", "REQUIRE_ORDER"}
    /\ argv0 \in Vectors
    /\ argv = argv0
    /\ ac = Len(argv0)
    /\ avoff = 0
    /\ optind = 1
    /\ nextchar = 0
    /\ first_nonopt = 1
    /\ last_nonopt = 1
    /\ ch = BADCH
    /\ stderr = <<>>
    /\ launch = <<>>
    /\ status = <<>>
    /\ pc = "parsing"

\* The variables getopt owns take the values of the call's result r.
GetoptEffect(r) ==
    /\ argv' = r.d.argv
    /\ optind' = r.d.optind
    /\ nextchar' = r.d.nextchar
    /\ first_nonopt' = r.d.first_nonopt
    /\ last_nonopt' = r.d.last_nonopt
    /\ ch' = r.ret
    /\ stderr' = stderr \o r.err

\* while ((ch = getopt(...)) != -1) continue;   one iteration of the loop
GetoptOption ==
    /\ pc = "parsing"
    /\ \E r \in {Getopt(d, ordering) : d \in {GetoptData}} :
          /\ r.ret # EOF
          /\ GetoptEffect(r)
    /\ UNCHANGED <<ordering, argv0, ac, avoff, launch, status, pc>>

\* The call of getopt that returns -1 ends the loop:  ac -= optind; av += optind;
GetoptEnd ==
    /\ pc = "parsing"
    /\ \E r \in {Getopt(d, ordering) : d \in {GetoptData}} :
          /\ r.ret = EOF
          /\ GetoptEffect(r)
          /\ ac' = ac - r.d.optind
          /\ avoff' = avoff + r.d.optind
    /\ pc' = "launching"
    /\ UNCHANGED <<ordering, argv0, launch, status>>

\* execvp(av[0], av) finds and loads the program: the process image is
\* replaced and main never continues.
ExecvpReplaces ==
    /\ pc = "launching"
    /\ Av(0) # NULL
    /\ Av(0) # S_empty
    /\ launch' = <<[file |-> Av(0), args |-> AvList]>>
    /\ pc' = "replaced"
    /\ UNCHANGED <<ordering, argv0, argv, ac, avoff, optind, nextchar,
                   first_nonopt, last_nonopt, ch, stderr, status>>

\* A variant of ExecvpFails in which main goes back to the option loop.
ExecvpFailsRetries ==
    /\ pc = "launching"
    /\ launch' = <<[file |-> Av(0), args |-> AvList]>>
    /\ pc' = "parsing"
    /\ UNCHANGED <<ordering, argv0, argv, ac, avoff, optind, nextchar,
                   first_nonopt, last_nonopt, ch, stderr, status>>

\* execvp(av[0], av) fails and returns -1, which main returns.
ExecvpFails ==
    /\ pc = "launching"
    /\ launch' = <<[file |-> Av(0), args |-> AvList]>>
    /\ status' = <<ExitStatus(-1)>>
    /\ pc' = "exited"
    /\ UNCHANGED <<ordering, argv0, argv, ac, avoff, optind, nextchar,
                   first_nonopt, last_nonopt, ch, stderr>>

\* execvp(NULL, av): the library dereferences the null name and the process
\* is killed by a signal (the other outcome, a failure, is ExecvpFails).
ExecvpFaults ==
    /\ pc = "launching"
    /\ Av(0) = NULL
    /\ launch' = <<[file |-> NULL, args |-> AvList]>>
    /\ pc' = "killed"
    /\ UNCHANGED <<ordering, argv0, argv, ac, avoff, optind, nextchar,
                   first_nonopt, last_nonopt, ch, stderr, status>>

Next ==
    \/ GetoptOption
    \/ GetoptEnd
    \/ ExecvpReplaces
    \/ ExecvpFails
    \/ ExecvpFaults

Spec == Init /\ [][Next]_vars

\* The process is scheduled until it ends: every enabled step is taken.
FairSpec == Spec /\ WF_vars(Next)

---------------------------------------------------------------------------
(* What the properties below speak of. *)

\* The process has ended, or its image has been replaced.
Terminal == {"replaced", "exited", "killed"}

\* execvp has been called; Call is the call made.
Launched == launch # <<>>
Call == launch[1]

\* The four flags, as separate elements, and their letters.
Flags == {S_f, S_n, S_p, S_D}
FlagLetters == {"f", "n", "p", "D"}

\* A string that starts with '-' and is longer than "-".
LooksLikeOption(s) == Len(s) >= 2 /\ s[1] = "-"

\* The position in v (from 1) of the first element after the leading
\* (flag, value) pairs that start at position i.
RECURSIVE AfterPairs(_, _)
AfterPairs(v, i) ==
    IF i + 1 <= Len(v) /\ v[i] \in Flags THEN AfterPairs(v, i + 2) ELSE i

\* A string that can name a command: not empty, not starting with '-'.
IsCommandName(s) == s # NULL /\ Len(s) >= 1 /\ s[1] # "-"

\* No element of v is "--".
NoDashDash(v) == \A i \in 1..Len(v) : v[i] # S_dashdash

\* v is [prog, (flag, value)*, cmd, arg_1 .. arg_k] with cmd a command name.
HasPairsThenCommand(v) ==
    /\ AfterPairs(v, 2) <= Len(v)
    /\ IsCommandName(v[AfterPairs(v, 2)])

\* An option element whose value is the element after it: its first flag
\* letter is its last character.
TakesNext(s) ==
    \E j \in 2..Len(s) :
        /\ s[j] \in FlagLetters
        /\ \A m \in 2..(j - 1) : s[m] \notin FlagLetters
        /\ j = Len(s)

\* The position in v (from 1) of the first operand at or after position i:
\* the first element that does not look like an option and is not the value
\* of one, or the element after "--"; past the end when there is none.
RECURSIVE OperandIndex(_, _)
OperandIndex(v, i) ==
    IF i > Len(v) THEN i
    ELSE IF v[i] = S_dashdash THEN i + 1
    ELSE IF ~LooksLikeOption(v[i]) THEN i
    ELSE IF TakesNext(v[i]) THEN OperandIndex(v, i + 2)
    ELSE OperandIndex(v, i + 1)

\* An element that is a flag: "-f" alone, or "-f" with its value attached.
IsFlagElement(s) == Len(s) >= 2 /\ s[1] = "-" /\ s[2] \in FlagLetters

\* The number of flag elements at the head of v, from position i on (the
\* value of a flag written alone is the element after it).
RECURSIVE FlagsIn(_, _)
FlagsIn(v, i) ==
    IF i <= Len(v) /\ IsFlagElement(v[i])
    THEN 1 + FlagsIn(v, IF Len(v[i]) = 2 THEN i + 2 ELSE i + 1)
    ELSE 0

\* The number of elements those flags take up: two for a flag written alone
\* with an element after it, one for a flag with its value attached, one for
\* a flag that is the last element.
RECURSIVE RemovedBy(_, _)
RemovedBy(v, i) ==
    IF i <= Len(v) /\ IsFlagElement(v[i])
    THEN IF Len(v[i]) = 2 /\ i + 1 <= Len(v)
         THEN 2 + RemovedBy(v, i + 2)
         ELSE 1 + RemovedBy(v, i + 1)
    ELSE 0

\* v is [prog, flag elements and their values, then a command or nothing].
HasFlagsThenOperand(v) ==
    /\ FlagsIn(v, 2) >= 1
    /\ \/ 2 + RemovedBy(v, 2) > Len(v)
       \/ IsCommandName(v[2 + RemovedBy(v, 2)])

---------------------------------------------------------------------------
(* The properties. *)

\* C1: for [prog, (flag, value)*, cmd, arg_1 .. arg_k] the launch call is
\* made with executable name cmd and argument list [cmd, arg_1, .., arg_k],
\* also when some arg_i looks like an option.  (Vectors with an element "--"
\* are left to C5.)
C1_LaunchesTrailingArguments ==
    (Launched /\ HasPairsThenCommand(argv0) /\ NoDashDash(argv0)) =>
        /\ Call.file = argv0[AfterPairs(argv0, 2)]
        /\ Call.args = SubSeq(argv0, AfterPairs(argv0, 2), Len(argv0))

\* C2: when the vector is [prog] or holds only flags with their values, no
\* launch is attempted: execvp is never called with a null name.
C2_NoLaunchWithoutCommand ==
    AfterPairs(argv0, 2) = Len(argv0) + 1 => ~Launched

\* C3: a failed launch ends the process with a non-zero exit status.
C3_FailedLaunchExitsNonZero ==
    pc = "exited" => (Launched /\ Len(status) = 1 /\ status[1] \in 1..255)

C3_Witness ==
    /\ pc = "exited"
    /\ argv0 = <<PROG, S_f, S_v, S_ls>>
    /\ Call.file = S_ls
    /\ status = <<255>>

\* C4: the step in which the launch fails writes a diagnostic that names the
\* command to the standard error stream.
C4_FailedLaunchIsDiagnosed ==
    [][pc' = "exited" =>
         /\ Len(stderr') = Len(stderr) + 1
         /\ stderr'[Len(stderr')].about = launch'[1].file]_vars

\* C5 as claimed: when "--" is the first element after the (flag, value)
\* pairs, the launch call is made with name "--" and "--" as argument zero.
C5_DashDashIsTheCommand ==
    (/\ Launched
     /\ AfterPairs(argv0, 2) <= Len(argv0)
     /\ argv0[AfterPairs(argv0, 2)] = S_dashdash) =>
        /\ Call.file = S_dashdash
        /\ Call.args = SubSeq(argv0, AfterPairs(argv0, 2), Len(argv0))

\* C5 as amended: when "--" is the first element after the (flag, value)
\* pairs, getopt takes it as the end of the options and skips it: the launch
\* call is made with the element after "--" as the name (null when there is
\* none) and with exactly the elements after "--" as the argument list.
C5_DashDashIsSkipped ==
    (/\ Launched
     /\ AfterPairs(argv0, 2) <= Len(argv0)
     /\ argv0[AfterPairs(argv0, 2)] = S_dashdash) =>
        /\ Call.file = Elem(argv0, AfterPairs(argv0, 2))
        /\ Call.args = SubSeq(argv0, AfterPairs(argv0, 2) + 1, Len(argv0))

C5_Witness ==
    /\ Launched
    /\ argv0 = <<PROG, S_f, S_v, S_n, S_v, S_dashdash, S_ls, S_la, S_tmp>>
    /\ Call.file = S_ls
    /\ Call.args = <<S_ls, S_la, S_tmp>>

\* C6 as claimed: the first element after the (flag, value) pairs, whatever
\* it is ('-x' too), is the command that is launched.  (Vectors with an
\* element "--" are left to C5.)
C6_FirstNonFlagIsTheCommand ==
    (Launched /\ AfterPairs(argv0, 2) <= Len(argv0) /\ NoDashDash(argv0)) =>
        Call.file = argv0[AfterPairs(argv0, 2)]

\* C6 as amended: an element that looks like an option but is not one of
\* the four flags ('-x') does not end the scan and is not the command:
\* getopt reports it and goes on.  The command launched is the first
\* operand: the first element, left to right, that does not look like an
\* option and is not the value of a flag, or the element after "--" (null
\* when there is no such element).
C6_CommandIsFirstOperand ==
    Launched => Call.file = Elem(argv0, OperandIndex(argv0, 2) - 1)

C6_Witness ==
    /\ Launched
    /\ argv0 = <<PROG, S_x, S_ls>>
    /\ Call.file = S_ls
    /\ stderr = <<[msg |-> "invalid option", about |-> <<"x">>]>>

\* C7: filtering an already filtered vector changes nothing:
\* filter(prog ++ filter(v)) = filter(v), for every v whose filtered form
\* starts with a command name.
C7_FilterIsIdempotent ==
    (Launched /\ IsCommandName(Call.file)) =>
        Filter(<<PROG>> \o Call.args, ordering) = Call.args

\* C8 as claimed: every flag removes exactly two elements, also with its
\* value attached and when it is the last element: after n flags the command
\* is the element 2n places after the program name.
C8_EveryFlagRemovesTwo ==
    (Launched /\ HasFlagsThenOperand(argv0)) =>
        Call.file = Elem(argv0, 1 + 2 * FlagsIn(argv0, 2))

\* C8 as amended: a flag written alone and followed by an element removes
\* two elements, the flag and the element after it, whatever that is; a flag
\* with its value attached ('-ffoo') removes one; a flag that is the last
\* element removes only itself.  The command is the element right after
\* the elements so removed (null when there is none).
C8_FlagsRemoveTheirElements ==
    (Launched /\ HasFlagsThenOperand(argv0)) =>
        /\ Call.file = Elem(argv0, 1 + RemovedBy(argv0, 2))
        /\ avoff >= 1 + RemovedBy(argv0, 2)
        /\ ordering = "REQUIRE_ORDER" => avoff = 1 + RemovedBy(argv0, 2)

C8_Witness ==
    /\ Launched
    /\ argv0 = <<PROG, S_fv, S_D, S_dashdash, S_ls>>
    /\ Call.file = S_ls
    /\ avoff = 4

\* C9: parsing is left for good and the process reaches a terminal state;
\* parsing is followed only by the launch, the launch only by a terminal
\* state, and nothing follows a terminal state.
C9_ParsingThenLaunching ==
    /\ <>(pc \in Terminal)
    /\ [][pc = "parsing" => pc' \in {"parsing", "launching"}]_vars
    /\ [][pc = "launching" => pc' \in Terminal]_vars
    /\ [][pc \notin Terminal]_vars

C9_Witness ==
    /\ pc = "replaced"
    /\ argv0 = <<PROG, S_p, S_v, S_ls, S_v, S_tmp>>
    /\ Call.args = <<S_ls, S_v, S_tmp>>

\* C10: optind stays within 1 .. ac and getopt's position within the
\* element it reads; after "ac -= optind; av += optind" the count is >= 0
\* and av[0] is an element of the vector or its terminating null.
C10_OptindInBounds ==
    /\ 1 <= optind
    /\ optind <= Len(argv0)
    /\ Len(argv) = Len(argv0)
    /\ nextchar # 0 =>
          (optind < Len(argv) /\ nextchar <= Len(argv[optind + 1]))
    /\ pc # "parsing" =>
          /\ ac >= 0
          /\ avoff = optind
          /\ ac = Len(argv0) - optind
          /\ (ac = 0) <=> (Av(0) = NULL)
          /\ Av(0) = NULL \/ \E i \in 1..Len(argv0) : argv0[i] = Av(0)

C10_Witness ==
    /\ pc = "launching"
    /\ argv0 = <<PROG, S_x, S_f>>
    /\ optind = 3
    /\ ac = 0
    /\ Av(0) = NULL

=============================================================================
